---- MODULE Spec2Model ----
(***************************************************************************)
(* Mobiles_Dataset: the catalog store (src/database.py, class Database)    *)
(* and the CSV bulk importer (src/scripts/import_data.py, class            *)
(* MobileDataImporter) over one PostgreSQL database.                       *)
(*                                                                         *)
(* db   is the committed (durable) content of the database;                *)
(* tx   is the database as the importer's open transaction sees it         *)
(*      (committed content plus the importer's uncommitted writes);        *)
(* seq  are the SERIAL sequences of the four tables: nextval is not        *)
(*      transactional, so a rollback never gives an id back.               *)
(***************************************************************************)
EXTENDS Integers, Sequences, FiniteSets, TLC

VARIABLES db, tx, seq, pc, idx, csv, company_cache, processor_cache,
          region_cache, models_count, prices_count, runs, nops,
          log, before, last, rerun, sessions, proc, connection

vars == <<db, tx, seq, pc, idx, csv, company_cache, processor_cache,
          region_cache, models_count, prices_count, runs, nops,
          log, before, last, rerun, sessions, proc, connection>>

(* ------------------------------ bounds -------------------------------- *)
MaxEvents == 3      \* CSV rows plus Database calls in one behaviour
MaxRuns == 2        \* import_data calls in one behaviour
MaxPriceLen == 5    \* characters of a price string given to parse_price
MaxSessions == 2    \* processes that call add_or_update_price at the same time

(* ------------------------- program constants -------------------------- *)
CommitEvery == 100  \* if (idx + 1) % 100 == 0: self.conn.commit()

None == 0           \* Python None / SQL NULL for an id or a year

NaN == <<"nan">>    \* a missing CSV cell (pandas NaN), as a cell value
NaNText == "NaN"    \* a missing CSV cell in a text column
NoValue == <<>>     \* parse_price's None
NullText == "NULL"  \* SQL NULL in a text column (Python None)
Limit == 100        \* LIMIT 100 of search_models

\* price_columns of import_data, in the order the loop visits them
price_columns == <<"Pakistan", "India", "China", "USA", "Dubai">>

RegionNames == {price_columns[i] : i \in 1..Len(price_columns)}

(* ---------------------------- parse_price ----------------------------- *)
Digits == {"0", "1", "2", "3", "4", "5", "6", "7", "8", "9"}

DigitValue(c) ==
    CASE c = "0" -> 0 [] c = "1" -> 1 [] c = "2" -> 2 [] c = "3" -> 3
      [] c = "4" -> 4 [] c = "5" -> 5 [] c = "6" -> 6 [] c = "7" -> 7
      [] c = "8" -> 8 [] c = "9" -> 9

IsDigitOrDot(c) == c \in Digits \/ c = "."

\* price_clean as it would be if the dots were removed with the rest
price_clean_digits(s) == SelectSeq(s, LAMBDA c : c \in Digits)

\* re.sub(r'[^\d.]', '', price_str)
price_clean(s) == SelectSeq(s, IsDigitOrDot)

IsDigit(c) == c \in Digits
IsDot(c) == c = "."

RECURSIVE DigitsToNat(_)
DigitsToNat(s) ==
    IF s = <<>> THEN 0
    ELSE 10 * DigitsToNat(SubSeq(s, 1, Len(s) - 1)) + DigitValue(s[Len(s)])

RECURSIVE Pow10(_)
Pow10(k) == IF k = 0 THEN 1 ELSE 10 * Pow10(k - 1)

RECURSIVE Normalize(_, _)
\* n / 10^k with no trailing zero in the fraction: equal floats, equal pairs
Normalize(n, k) ==
    IF k > 0 /\ n % 10 = 0 THEN Normalize(n \div 10, k - 1) ELSE <<n, k>>

\* float_ok as it would be if float() took a lone dot for zero
float_ok_lenient(s) == Len(SelectSeq(s, IsDot)) <= 1

\* float(price_clean) accepts digits with at most one dot and one digit at least
float_ok(s) ==
    /\ Len(SelectSeq(s, IsDot)) <= 1
    /\ Len(SelectSeq(s, IsDigit)) >= 1

DotPos(s) == CHOOSE i \in 1..Len(s) : s[i] = "."

\* the float that float() returns for a numeral too large for a double
Inf == <<"inf">>

\* 2^1024 - 2^970, the least decimal integer that float() rounds to inf
FloatOverflow ==
    << "1", "7", "9", "7", "6", "9", "3", "1", "3", "4", "8", "6", "2", "3",
       "1", "5", "8", "0", "7", "9", "3", "7", "2", "8", "9", "7", "1", "4",
       "0", "5", "3", "0", "3", "4", "1", "5", "0", "7", "9", "9", "3", "4",
       "1", "3", "2", "7", "1", "0", "0", "3", "7", "8", "2", "6", "9", "3",
       "6", "1", "7", "3", "7", "7", "8", "9", "8", "0", "4", "4", "4", "9",
       "6", "8", "2", "9", "2", "7", "6", "4", "7", "5", "0", "9", "4", "6",
       "6", "4", "9", "0", "1", "7", "9", "7", "7", "5", "8", "7", "2", "0",
       "7", "0", "9", "6", "3", "3", "0", "2", "8", "6", "4", "1", "6", "6",
       "9", "2", "8", "8", "7", "9", "1", "0", "9", "4", "6", "5", "5", "5",
       "5", "4", "7", "8", "5", "1", "9", "4", "0", "4", "0", "2", "6", "3",
       "0", "6", "5", "7", "4", "8", "8", "6", "7", "1", "5", "0", "5", "8",
       "2", "0", "6", "8", "1", "9", "0", "8", "9", "0", "2", "0", "0", "0",
       "7", "0", "8", "3", "8", "3", "6", "7", "6", "2", "7", "3", "8", "5",
       "4", "8", "4", "5", "8", "1", "7", "7", "1", "1", "5", "3", "1", "7",
       "6", "4", "4", "7", "5", "7", "3", "0", "2", "7", "0", "0", "6", "9",
       "8", "5", "5", "5", "7", "1", "3", "6", "6", "9", "5", "9", "6", "2",
       "2", "8", "4", "2", "9", "1", "4", "8", "1", "9", "8", "6", "0", "8",
       "3", "4", "9", "3", "6", "4", "7", "5", "2", "9", "2", "7", "1", "9",
       "0", "7", "4", "1", "6", "8", "4", "4", "4", "3", "6", "5", "5", "1",
       "0", "7", "0", "4", "3", "4", "2", "7", "1", "1", "5", "5", "9", "6",
       "9", "9", "5", "0", "8", "0", "9", "3", "0", "4", "2", "8", "8", "0",
       "1", "7", "7", "9", "0", "4", "1", "7", "4", "4", "9", "7", "7", "9",
       "2" >>

RECURSIVE StripZeros(_)
StripZeros(s) == IF s # <<>> /\ s[1] = "0" THEN StripZeros(Tail(s)) ELSE s

\* the digits of s before its dot
IntPart(s) == IF SelectSeq(s, IsDot) = <<>> THEN s ELSE SubSeq(s, 1, DotPos(s) - 1)

\* a >= b for decimal numerals of the same length
DigitsGE(a, b) ==
    \/ a = b
    \/ \E i \in 1..Len(a) : /\ DigitValue(a[i]) > DigitValue(b[i])
                            /\ \A j \in 1..(i - 1) : a[j] = b[j]

float_overflow(s) ==
    LET d == StripZeros(IntPart(s)) IN
    \/ Len(d) > Len(FloatOverflow)
    \/ Len(d) = Len(FloatOverflow) /\ DigitsGE(d, FloatOverflow)

\* float as it would be if it took the digits only (the dot dropped)
float_digits(s) == <<DigitsToNat(SelectSeq(s, IsDigit)), 0>>

float(s) ==
    IF float_overflow(s) THEN Inf
    ELSE IF SelectSeq(s, IsDot) = <<>> THEN <<DigitsToNat(s), 0>>
    ELSE Normalize(DigitsToNat(SelectSeq(s, IsDigit)), Len(s) - DotPos(s))

parse_price(price_str) ==
    IF price_str = NaN \/ price_str = <<>> THEN NoValue
    ELSE LET clean == price_clean(price_str) IN
         IF clean = <<>> THEN NoValue
         ELSE IF float_ok(clean) THEN float(clean)
         ELSE NoValue          \* except ValueError: warning, return None

\* lines 66-67: logger.warning is called in the except ValueError branch,
\* which float(price_clean) alone can enter
parse_price_warns(price_str) ==
    /\ price_str # NaN /\ price_str # <<>>
    /\ price_clean(price_str) # <<>>
    /\ ~float_ok(price_clean(price_str))

\* int(row['Launched Year']): ValueError unless the cell is a numeral
int_ok(cell) == cell # <<>> /\ \A i \in 1..Len(cell) : cell[i] \in Digits

(* ------------------------------ inputs -------------------------------- *)
\* the cells of a CSV row: a numeric and a non-numeric launch year, a
\* Pakistan price in every row, an India price in some
GoodYear == <<"2", "0", "2", "0">>
BadYear == <<"T", "B", "A">>
PakistanCell == <<"R", "s", "1", ",", "0", "0", "0">>
IndiaCells == {NaN, <<"R", "s", ".", "5", "0", "0">>}

Row(model, processor, year, india) ==
    [company |-> "Acme", model |-> model, processor |-> processor, year |-> year,
     ram |-> "8GB", battery |-> "5000mAh",
     price |-> [r \in RegionNames |->
                  IF r = "Pakistan" THEN PakistanCell
                  ELSE IF r = "India" THEN india ELSE NaN]]

\* the rows of the two-row file of the end-to-end scenario, and the same
\* rows with the India price moved or absent; cells not given are missing
Price10000 == <<"R", "s", "1", "0", ",", "0", "0", "0">>
Price20000 == <<"R", "s", "2", "0", ",", "0", "0", "0">>
Price5000 == <<"R", "s", "5", ",", "0", "0", "0">>

ScenarioRow(model, pakistan, india) ==
    [company |-> "Acme", model |-> model, processor |-> "Chip1", year |-> NaN,
     ram |-> NaNText, battery |-> NaNText,
     price |-> [r \in RegionNames |->
                  IF r = "Pakistan" THEN pakistan
                  ELSE IF r = "India" THEN india ELSE NaN]]

RowA == ScenarioRow("X1", Price10000, NaN)
RowB == ScenarioRow("X2", Price20000, Price5000)

ScenarioRows ==
    {ScenarioRow(mo, p, i) : mo \in {"X1", "X2"}, p \in {Price10000, Price20000},
                             i \in {NaN, Price5000}}

Rows ==
    {Row("X1", "Chip1", GoodYear, i) : i \in IndiaCells}
    \cup {Row("X2", NaNText, y, i) : y \in {GoodYear, BadYear}, i \in IndiaCells}

\* the characters of a price cell: digits, the dot, a thousands separator, a
\* currency symbol, a blank, and the sign that str() of a number can hold
PriceChars == {"0", "5", ".", ",", "$", " ", "-"}

RECURSIVE Strings(_)
\* the strings of at most n characters
Strings(n) ==
    IF n = 0 THEN {<<>>}
    ELSE LET shorter == Strings(n - 1) IN
         shorter \cup {Append(t, c) : t \in {x \in shorter : Len(x) = n - 1},
                                      c \in PriceChars}

\* a numeral of one digit more than the largest double has
HugePrice == [i \in 1..(Len(FloatOverflow) + 1) |-> "9"]

PriceInputs == Strings(MaxPriceLen) \cup {NaN, HugePrice}

DbCompanyNames == {"Acme", "Beta"}
DbModelNames == {"X1"}
DbProcessorNames == {"", "Chip1"}
DbPrices == {<<100, 0>>, <<200, 0>>}

(* ------------------------------ the store ----------------------------- *)
EmptyStore(regionNames) ==
    [companies |-> {}, processors |-> {}, models |-> {}, prices |-> {},
     regions |-> {[region_id |-> i, region_name |-> price_columns[i]] :
                    i \in {j \in 1..Len(price_columns) : price_columns[j] \in regionNames}}]

ids(rows, f) == {r[f] : r \in rows}

\* ON DELETE CASCADE: models of a deleted company, prices of a deleted model
cascade(store) ==
    LET ms == {m \in store.models : m.company_id \in ids(store.companies, "company_id")}
    IN [store EXCEPT !.models = ms,
                     !.prices = {p \in store.prices : p.model_id \in ids(ms, "model_id")}]

\* the foreign keys of a models row
model_fk_ok(store, company_id, processor_id) ==
    /\ company_id \in ids(store.companies, "company_id")
    /\ processor_id = None \/ processor_id \in ids(store.processors, "processor_id")

SamePair(p, model_id, region_id) == p.model_id = model_id /\ p.region_id = region_id

\* the foreign keys of a prices row
price_fk_ok(store, model_id, region_id) ==
    /\ model_id \in ids(store.models, "model_id")
    /\ region_id \in ids(store.regions, "region_id")

(* ---------------------- MobileDataImporter ---------------------------- *)
\* The importer's Python state and its view of the database while one row
\* is processed: wrote collects the rows this CSV row has inserted so far,
\* raised says that a statement of the row has raised.
Machine ==
    [tx |-> tx, seq |-> seq, company_cache |-> company_cache,
     processor_cache |-> processor_cache, models_count |-> models_count,
     prices_count |-> prices_count, wrote |-> {}, raised |-> FALSE]

\* get_or_create_company as it would be without company_cache: every call
\* queries the store
get_or_create_company_uncached(m, company_name) ==
    LET result == {c \in m.tx.companies : c.company_name = company_name} IN
    IF result # {}
    THEN [m |-> m, id |-> (CHOOSE c \in result : TRUE).company_id, stmts |-> 1]
    ELSE LET company_id == m.seq.companies + 1 IN
         [m |-> [m EXCEPT
                   !.tx.companies = @ \cup {[company_id |-> company_id,
                                             company_name |-> company_name]},
                   !.seq.companies = company_id,
                   !.wrote = @ \cup {<<"companies", company_id>>}],
          id |-> company_id, stmts |-> 2]

\* stmts counts the statements the call has the cursor execute
get_or_create_company(m, company_name) ==
    IF company_name \in DOMAIN m.company_cache
    THEN [m |-> m, id |-> m.company_cache[company_name], stmts |-> 0]
    ELSE LET result == {c \in m.tx.companies : c.company_name = company_name} IN
         IF result # {}
         THEN LET company_id == (CHOOSE c \in result : TRUE).company_id IN
              [m |-> [m EXCEPT !.company_cache = (company_name :> company_id) @@ @],
               id |-> company_id, stmts |-> 1]
         ELSE LET company_id == m.seq.companies + 1 IN
              [m |-> [m EXCEPT
                        !.tx.companies = @ \cup {[company_id |-> company_id,
                                                  company_name |-> company_name]},
                        !.seq.companies = company_id,
                        !.wrote = @ \cup {<<"companies", company_id>>},
                        !.company_cache = (company_name :> company_id) @@ @],
               id |-> company_id, stmts |-> 2]

\* get_or_create_processor as it would be without processor_cache
get_or_create_processor_uncached(m, processor_name) ==
    IF processor_name = NaNText \/ processor_name = ""
    THEN [m |-> m, id |-> None, stmts |-> 0]
    ELSE LET result == {p \in m.tx.processors : p.processor_name = processor_name} IN
         IF result # {}
         THEN [m |-> m, id |-> (CHOOSE p \in result : TRUE).processor_id, stmts |-> 1]
         ELSE LET processor_id == m.seq.processors + 1 IN
              [m |-> [m EXCEPT
                        !.tx.processors = @ \cup {[processor_id |-> processor_id,
                                                   processor_name |-> processor_name]},
                        !.seq.processors = processor_id,
                        !.wrote = @ \cup {<<"processors", processor_id>>}],
               id |-> processor_id, stmts |-> 2]

\* get_or_create_processor as it would be without its first test: a missing
\* name is looked up and inserted like any other
get_or_create_processor_unguarded(m, processor_name) ==
    IF processor_name \in DOMAIN m.processor_cache
    THEN [m |-> m, id |-> m.processor_cache[processor_name], stmts |-> 0]
    ELSE LET result == {p \in m.tx.processors : p.processor_name = processor_name} IN
         IF result # {}
         THEN LET processor_id == (CHOOSE p \in result : TRUE).processor_id IN
              [m |-> [m EXCEPT !.processor_cache = (processor_name :> processor_id) @@ @],
               id |-> processor_id, stmts |-> 1]
         ELSE LET processor_id == m.seq.processors + 1 IN
              [m |-> [m EXCEPT
                        !.tx.processors = @ \cup {[processor_id |-> processor_id,
                                                   processor_name |-> processor_name]},
                        !.seq.processors = processor_id,
                        !.wrote = @ \cup {<<"processors", processor_id>>},
                        !.processor_cache = (processor_name :> processor_id) @@ @],
               id |-> processor_id, stmts |-> 2]

\* lines 96-123; pd.isna(processor_name) or processor_name == '' gives None
get_or_create_processor(m, processor_name) ==
    IF processor_name = NaNText \/ processor_name = ""
    THEN [m |-> m, id |-> None, stmts |-> 0]
    ELSE IF processor_name \in DOMAIN m.processor_cache
    THEN [m |-> m, id |-> m.processor_cache[processor_name], stmts |-> 0]
    ELSE LET result == {p \in m.tx.processors : p.processor_name = processor_name} IN
         IF result # {}
         THEN LET processor_id == (CHOOSE p \in result : TRUE).processor_id IN
              [m |-> [m EXCEPT !.processor_cache = (processor_name :> processor_id) @@ @],
               id |-> processor_id, stmts |-> 1]
         ELSE LET processor_id == m.seq.processors + 1 IN
              [m |-> [m EXCEPT
                        !.tx.processors = @ \cup {[processor_id |-> processor_id,
                                                   processor_name |-> processor_name]},
                        !.seq.processors = processor_id,
                        !.wrote = @ \cup {<<"processors", processor_id>>},
                        !.processor_cache = (processor_name :> processor_id) @@ @],
               id |-> processor_id, stmts |-> 2]

\* existing_models as it would be if the lookup found nothing
existing_models_none(store, model_name, company_id) == {}

\* SELECT model_id FROM models WHERE model_name = %s AND company_id = %s
existing_models(store, model_name, company_id) ==
    {mo \in store.models : mo.model_name = model_name /\ mo.company_id = company_id}

\* row['RAM'] if pd.notna(row['RAM']) else None
text_or_null(cell) == IF cell = NaNText THEN NullText ELSE cell

\* lines 168-193: reuse the model fetchone() returned, or insert the row's model
import_model(m, row, company_id, processor_id, existing_model) ==
    IF existing_model # None
    THEN [m |-> m, id |-> existing_model]
    ELSE IF row.year # NaN /\ ~int_ok(row.year)
    THEN [m |-> [m EXCEPT !.raised = TRUE], id |-> None]       \* ValueError
    ELSE LET model_id == m.seq.models + 1 IN
         IF ~model_fk_ok(m.tx, company_id, processor_id)
         THEN [m |-> [m EXCEPT !.seq.models = model_id, !.raised = TRUE],
               id |-> None]                                    \* ForeignKeyViolation
         ELSE [m |-> [m EXCEPT
                        !.tx.models = @ \cup
                            {[model_id |-> model_id, model_name |-> row.model,
                              company_id |-> company_id, processor_id |-> processor_id,
                              launched_year |-> IF row.year = NaN THEN None
                                                ELSE DigitsToNat(row.year),
                              ram |-> text_or_null(row.ram),
                              battery_capacity |-> text_or_null(row.battery)]},
                        !.seq.models = model_id,
                        !.wrote = @ \cup {<<"models", model_id>>},
                        !.models_count = @ + 1],
               id |-> model_id]

\* import_price as it would be with the GUI's upsert: an existing amount is replaced
import_price_overwrite(m, model_id, region_id, price) ==
    IF \E p \in m.tx.prices : p.model_id = model_id /\ p.region_id = region_id
    THEN [m EXCEPT !.tx.prices =
            {IF p.model_id = model_id /\ p.region_id = region_id
             THEN [p EXCEPT !.price = price] ELSE p : p \in @}]
    ELSE LET price_id == m.seq.prices + 1 IN
         [m EXCEPT !.tx.prices = @ \cup {[price_id |-> price_id, model_id |-> model_id,
                                          region_id |-> region_id, price |-> price]},
                   !.seq.prices = price_id,
                   !.wrote = @ \cup {<<"prices", price_id>>},
                   !.prices_count = @ + 1]

\* lines 209-222: insert the price unless the (model, region) pair has one
import_price(m, model_id, region_id, price) ==
    IF \E p \in m.tx.prices : p.model_id = model_id /\ p.region_id = region_id
    THEN m
    ELSE LET price_id == m.seq.prices + 1 IN
         [m EXCEPT !.tx.prices = @ \cup {[price_id |-> price_id, model_id |-> model_id,
                                          region_id |-> region_id, price |-> price]},
                   !.seq.prices = price_id,
                   !.wrote = @ \cup {<<"prices", price_id>>},
                   !.prices_count = @ + 1]

RECURSIVE import_prices(_, _, _, _, _)
\* lines 204-222: the loop over price_columns, from column i on
import_prices(m, row, model_id, rc, i) ==
    IF i > Len(price_columns) \/ m.raised THEN m
    ELSE LET region_name == price_columns[i]
             price == parse_price(row.price[region_name])
         IN IF price = NoValue THEN import_prices(m, row, model_id, rc, i + 1)
            ELSE IF region_name \notin DOMAIN rc
            THEN [m EXCEPT !.raised = TRUE]                     \* KeyError
            ELSE import_prices(import_price(m, model_id, rc[region_name], price),
                               row, model_id, rc, i + 1)

\* rollback as it would be if the except branch did not roll back
rollback_missing(view, committed) == view

\* self.conn.rollback(): the transaction's view falls back to the committed data
rollback(view, committed) == committed

\* on_row_error as it would be if the except branch re-raised
on_row_error_raise == "aborted"

\* except Exception: log, rollback, continue
on_row_error == "running"

\* load_regions: every region row enters region_cache
load_regions(rc, store) ==
    [n \in DOMAIN rc \cup ids(store.regions, "region_name") |->
        IF n \in ids(store.regions, "region_name")
        THEN (CHOOSE r \in store.regions : r.region_name = n).region_id
        ELSE rc[n]]

\* import_data, lines 139-150: read the CSV, load the regions, zero the
\* counts; cc, pcache and rc are the importer's caches when it is called
begin(cc, pcache, rc) ==
    /\ pc = "idle"
    /\ runs < MaxRuns
    /\ runs' = runs + 1
    /\ pc' = "running"
    /\ idx' = 0
    /\ tx' = db
    /\ company_cache' = cc
    /\ processor_cache' = pcache
    /\ region_cache' = load_regions(rc, db)
    /\ models_count' = 0
    /\ prices_count' = 0
    /\ log' = <<>>
    /\ before' = db
    /\ rerun' = (last.op = "import_data")
    /\ UNCHANGED <<db, seq, csv, nops, last, sessions, connection>>

\* __main__, lines 257-261: a new MobileDataImporter (empty caches, lines
\* 25-27), connect(), import_data(csv_path)
main == begin(<<>>, <<>>, <<>>) /\ UNCHANGED proc

\* import_data called once more on an importer that has run before
import_data_again ==
    /\ runs >= 1
    /\ begin(company_cache, processor_cache, region_cache)
    /\ UNCHANGED proc

\* import_data, lines 152-232: one iteration of the loop over the rows
\* the row's statements up to the end of the price loop, given the model
\* fetchone() returned for the row (None when the SELECT found none)
row_outcome(row, c, p, existing_model) ==
    LET mo == import_model(p.m, row, c.id, p.id, existing_model)
    IN import_prices(mo.m, row, mo.id, region_cache, 1)

import_row(row) ==
    \E c \in {get_or_create_company(Machine, row.company)} :
    \E p \in {get_or_create_processor(c.m, row.processor)} :
    \E found \in {existing_models(p.m.tx, row.model, c.id)} :
    \E existing_model \in (IF found = {} THEN {None} ELSE ids(found, "model_id")) :
    \E m \in {row_outcome(row, c, p, existing_model)} :
    \E commit \in {~m.raised /\ (idx + 1) % CommitEvery = 0} :
        /\ tx' = IF m.raised THEN rollback(m.tx, db) ELSE m.tx
        /\ db' = IF commit THEN m.tx ELSE db
        /\ seq' = m.seq
        /\ company_cache' = m.company_cache
        /\ processor_cache' = m.processor_cache
        /\ models_count' = m.models_count
        /\ prices_count' = m.prices_count
        /\ pc' = IF m.raised THEN on_row_error ELSE "running"
        /\ idx' = idx + 1
        /\ log' = Append(log, [raised |-> m.raised, wrote |-> m.wrote,
                               commit |-> commit,
                               company |-> [id |-> c.id, stmts |-> c.stmts],
                               processor |-> [id |-> p.id, stmts |-> p.stmts],
                               existing_model |-> existing_model])
        /\ UNCHANGED <<region_cache, runs, nops, before, last, rerun, sessions, proc, connection>>

\* the loop takes the next row of the file; the file's content is fixed the
\* first time the file is read
import_data_row ==
    /\ pc = "running"
    /\ \/ /\ idx < Len(csv)
          /\ import_row(csv[idx + 1])
          /\ UNCHANGED csv
       \/ /\ idx = Len(csv)
          /\ runs = 1
          /\ nops + Len(csv) < MaxEvents
          /\ \E row \in Rows : import_row(row) /\ csv' = Append(csv, row)

\* import_data, lines 234-242: the final commit and the summary
import_data_end ==
    /\ pc = "running"
    /\ idx = Len(csv)
    /\ db' = tx
    /\ pc' = "idle"
    /\ last' = [op |-> "import_data", raised |-> FALSE,
                args |-> <<models_count, prices_count>>, failed |-> "", exc |-> ""]
    /\ UNCHANGED <<tx, seq, idx, csv, company_cache, processor_cache, region_cache,
                   models_count, prices_count, runs, nops, log, before, rerun,
                   sessions, proc, connection>>

\* one call of parse_price, with the input that is waiting in `last`; the
\* only exception its body can raise, float()'s ValueError, is caught inside
parse_price_call ==
    /\ pc = "idle"
    /\ last.op = "input"
    /\ last' = [op |-> "parse_price", raised |-> FALSE,
                args |-> <<last.args[1], parse_price(last.args[1]),
                           parse_price_warns(last.args[1])>>,
                failed |-> "", exc |-> ""]
    /\ UNCHANGED <<db, tx, seq, pc, idx, csv, company_cache, processor_cache,
                   region_cache, models_count, prices_count, runs, nops, log,
                   before, rerun, sessions, proc, connection>>

(* ------------------------- the import script ------------------------- *)
\* The process that runs import_data.py: pc is where __main__ stands, conn
\* and cursor are the importer's self.conn and self.cursor ("none": None),
\* exc is the exception that is propagating, disconnected says that
\* disconnect() has been executed.
NoProcess ==
    [pc |-> "none", conn |-> "none", cursor |-> "none", exc |-> "",
     disconnected |-> FALSE]

\* the try of __main__ as it would be without its finally clause
after_try_exit == "ended"

\* lines 259-263, try ... finally: where control goes when the try block is
\* left, by an exception or at its end
after_try == "finally"

\* line 257: importer = MobileDataImporter(db_config), as the process starts
script_start ==
    /\ pc = "idle"
    /\ proc.pc = "none"
    /\ proc' = [NoProcess EXCEPT !.pc = "start"]
    /\ UNCHANGED <<db, tx, seq, pc, idx, csv, company_cache, processor_cache,
                   region_cache, models_count, prices_count, runs, nops, log,
                   before, last, rerun, sessions, connection>>

\* importer.connect(): psycopg2.connect raises, or conn.cursor() raises, or
\* both succeed; connect logs and re-raises
script_connect ==
    /\ proc.pc = "start"
    /\ \/ proc' = [proc EXCEPT !.pc = "connected", !.conn = "open", !.cursor = "open"]
       \/ proc' = [proc EXCEPT !.pc = after_try, !.exc = "OperationalError"]
       \/ proc' = [proc EXCEPT !.pc = after_try, !.conn = "open",
                               !.exc = "OperationalError"]
    /\ UNCHANGED <<db, tx, seq, pc, idx, csv, company_cache, processor_cache,
                   region_cache, models_count, prices_count, runs, nops, log,
                   before, last, rerun, sessions, connection>>

\* importer.import_data(path): pd.read_csv raises on an unreadable file, or
\* the run begins
script_import_data ==
    /\ proc.pc = "connected"
    /\ \/ /\ proc' = [proc EXCEPT !.pc = after_try, !.exc = "FileNotFoundError"]
          /\ UNCHANGED <<db, tx, seq, pc, idx, csv, company_cache, processor_cache,
                         region_cache, models_count, prices_count, runs, nops, log,
                         before, last, rerun, sessions, connection>>
       \/ /\ begin(<<>>, <<>>, <<>>)
          /\ proc' = [proc EXCEPT !.pc = "importing"]

\* the connection is lost during the run: the statement raises, rollback()
\* in the except branch raises as well, and import_data is left
import_data_raise ==
    /\ proc.pc = "importing"
    /\ pc = "running"
    /\ pc' = "idle"
    /\ tx' = db
    /\ proc' = [proc EXCEPT !.pc = after_try, !.exc = "OperationalError"]
    /\ UNCHANGED <<db, seq, idx, csv, company_cache, processor_cache, region_cache,
                   models_count, prices_count, runs, nops, log, before, last, rerun,
                   sessions, connection>>

\* import_data has returned: the try block ends
script_try_end ==
    /\ proc.pc = "importing"
    /\ pc = "idle"
    /\ proc' = [proc EXCEPT !.pc = after_try]
    /\ UNCHANGED <<db, tx, seq, pc, idx, csv, company_cache, processor_cache,
                   region_cache, models_count, prices_count, runs, nops, log,
                   before, last, rerun, sessions, connection>>

\* disconnect as it would be if it closed the cursor only
disconnect_cursor_only(p) ==
    [p EXCEPT !.cursor = IF @ = "open" THEN "closed" ELSE @, !.disconnected = TRUE]

\* disconnect, lines 39-45: close the cursor and the connection that exist
disconnect(p) ==
    [p EXCEPT !.cursor = IF @ = "open" THEN "closed" ELSE @,
              !.conn = IF @ = "open" THEN "closed" ELSE @,
              !.disconnected = TRUE]

\* finally: importer.disconnect(); then the process ends, with the
\* exception if one is propagating; what was not committed is lost
script_disconnect ==
    /\ proc.pc = "finally"
    /\ proc' = [disconnect(proc) EXCEPT !.pc = "ended"]
    /\ tx' = db
    /\ UNCHANGED <<db, seq, pc, idx, csv, company_cache, processor_cache,
                   region_cache, models_count, prices_count, runs, nops, log,
                   before, last, rerun, sessions, connection>>

(* ------------------------------ Database ------------------------------ *)
\* ModelDialog.get_data: the company is the one selected in the combo box,
\* None when the box is empty; the other fields are what the form holds
ModelData ==
    { [model_name |-> n, company_id |-> c, processor_name |-> p,
       launched_year |-> 2021, ram |-> "4GB", battery_capacity |-> NullText] :
      n \in DbModelNames, p \in DbProcessorNames,
      c \in IF db.companies = {} THEN {None} ELSE ids(db.companies, "company_id") }

\* PriceDialog: the regions offered for a price
DialogRegions ==
    {r.region_id : r \in {x \in db.regions : x.region_name \in {"Pakistan", "India"}}}

\* The Database's psycopg2 connection between two operations: status is its
\* transaction status ("idle": no transaction; "aborted": a failed
\* transaction that has not been rolled back), cursors counts the cursors
\* that are open on it
IdleConnection == [status |-> "idle", cursors |-> 0]

\* get_cursor_exit as it would be without self.connection.rollback() in the
\* except branch
get_cursor_exit_no_rollback(c, r) ==
    [status |-> IF r.raised THEN "aborted" ELSE "idle",
     cursors |-> (c.cursors + 1) - 1]

\* get_cursor, lines 57-67, on the connection: a cursor is opened; commit or
\* rollback ends the transaction; finally the cursor is closed
get_cursor_exit(c, r) ==
    [status |-> "idle", cursors |-> (c.cursors + 1) - 1]

\* what the body of a get_cursor block does on connection c when r is what
\* its statements do on a connection without a failed transaction: in a
\* failed transaction every statement raises
execute(c, store, s, r) ==
    IF c.status = "aborted"
    THEN [store |-> store, seq |-> s, raised |-> TRUE, exc |-> "InFailedSqlTransaction"]
    ELSE r

\* get_cursor: commit when the body returns, rollback when it raises
get_cursor(committed, r) == IF r.raised THEN committed ELSE r.store

\* get_cursor as it would be if its except branch ended without `raise`
reraise_swallowed(r) == ""

\* get_cursor, lines 62-65: what the with block raises to the method's
\* caller, "" when the body and the commit went through
reraise(r) == IF r.raised THEN r.exc ELSE ""

\* INSERT INTO companies (company_name) VALUES (%s) RETURNING company_id
insert_company(store, s, company_name) ==
    LET company_id == s.companies + 1 IN
    IF company_name \in ids(store.companies, "company_name")
    THEN [store |-> store, seq |-> [s EXCEPT !.companies = company_id],
          raised |-> TRUE,
          exc |-> "UniqueViolation"]
    ELSE [store |-> [store EXCEPT !.companies = @ \cup
                        {[company_id |-> company_id, company_name |-> company_name]}],
          seq |-> [s EXCEPT !.companies = company_id], raised |-> FALSE]

\* UPDATE companies SET company_name = %s WHERE company_id = %s
rename_company(store, s, company_id, company_name) ==
    IF /\ company_id \in ids(store.companies, "company_id")
       /\ \E c \in store.companies : c.company_id # company_id /\ c.company_name = company_name
    THEN [store |-> store, seq |-> s, raised |-> TRUE,
          exc |-> "UniqueViolation"]
    ELSE [store |-> [store EXCEPT !.companies =
                        {IF c.company_id = company_id
                         THEN [c EXCEPT !.company_name = company_name] ELSE c : c \in @}],
          seq |-> s, raised |-> FALSE]

\* remove_company as it would be on tables without ON DELETE CASCADE and
\* without foreign keys: only the company row goes
remove_company_alone(store, s, company_id) ==
    [store |-> [store EXCEPT !.companies = {c \in @ : c.company_id # company_id}],
     seq |-> s, raised |-> FALSE]

\* DELETE FROM companies WHERE company_id = %s
remove_company(store, s, company_id) ==
    [store |-> cascade([store EXCEPT !.companies = {c \in @ : c.company_id # company_id}]),
     seq |-> s, raised |-> FALSE]

\* Database.get_or_create_processor, lines 246-262, its own transaction
db_get_or_create_processor(store, s, processor_name) ==
    LET result == {p \in store.processors : p.processor_name = processor_name} IN
    IF result # {}
    THEN [store |-> store, seq |-> s, raised |-> FALSE,
          id |-> (CHOOSE p \in result : TRUE).processor_id]
    ELSE LET processor_id == s.processors + 1 IN
         [store |-> [store EXCEPT !.processors = @ \cup
                        {[processor_id |-> processor_id, processor_name |-> processor_name]}],
          seq |-> [s EXCEPT !.processors = processor_id], raised |-> FALSE,
          id |-> processor_id]

\* add_model / update_model, lines 148-150 and 177-179: the processor is
\* resolved, and committed, before the model's own transaction begins
resolve_processor(store, s, model_data) ==
    IF model_data.processor_name # ""
    THEN LET r == db_get_or_create_processor(store, s, model_data.processor_name)
         IN [store |-> get_cursor(store, r), seq |-> r.seq, raised |-> FALSE, id |-> r.id]
    ELSE [store |-> store, seq |-> s, raised |-> FALSE, id |-> None]

\* INSERT INTO models (...) VALUES (...) RETURNING model_id
insert_model(store, s, model_data, processor_id) ==
    LET model_id == s.models + 1 IN
    IF ~model_fk_ok(store, model_data.company_id, processor_id)
    THEN [store |-> store, seq |-> [s EXCEPT !.models = model_id],
          raised |-> TRUE,
          exc |-> "ForeignKeyViolation"]
    ELSE [store |-> [store EXCEPT !.models = @ \cup
                        {[model_id |-> model_id, model_name |-> model_data.model_name,
                          company_id |-> model_data.company_id,
                          processor_id |-> processor_id,
                          launched_year |-> model_data.launched_year,
                          ram |-> model_data.ram,
                          battery_capacity |-> model_data.battery_capacity]}],
          seq |-> [s EXCEPT !.models = model_id], raised |-> FALSE]

\* UPDATE models SET ... WHERE model_id = %s
rewrite_model(store, s, model_id, model_data, processor_id) ==
    IF model_id \in ids(store.models, "model_id")
       /\ ~model_fk_ok(store, model_data.company_id, processor_id)
    THEN [store |-> store, seq |-> s, raised |-> TRUE,
          exc |-> "ForeignKeyViolation"]
    ELSE [store |-> [store EXCEPT !.models =
                        {IF mo.model_id = model_id
                         THEN [model_id |-> model_id, model_name |-> model_data.model_name,
                               company_id |-> model_data.company_id,
                               processor_id |-> processor_id,
                               launched_year |-> model_data.launched_year,
                               ram |-> model_data.ram,
                               battery_capacity |-> model_data.battery_capacity]
                         ELSE mo : mo \in @}],
          seq |-> s, raised |-> FALSE]

\* remove_model as it would be if it also deleted the processors that no
\* model refers to any more
remove_model_and_processor(store, s, model_id) ==
    LET ms == {mo \in store.models : mo.model_id # model_id} IN
    [store |-> cascade([store EXCEPT
                          !.models = ms,
                          !.processors = {p \in @ : p.processor_id \in
                                                      ids(ms, "processor_id")}]),
     seq |-> s, raised |-> FALSE]

\* DELETE FROM models WHERE model_id = %s
remove_model(store, s, model_id) ==
    [store |-> cascade([store EXCEPT !.models = {mo \in @ : mo.model_id # model_id}]),
     seq |-> s, raised |-> FALSE]

\* upsert_price as a plain INSERT into a table without the unique index
upsert_price_blind(store, s, model_id, region_id, price) ==
    LET price_id == s.prices + 1
        s2 == [s EXCEPT !.prices = price_id]
    IN IF ~price_fk_ok(store, model_id, region_id)
       THEN [store |-> store, seq |-> s2, raised |-> TRUE, exc |-> "ForeignKeyViolation"]
       ELSE [store |-> [store EXCEPT !.prices = @ \cup
                           {[price_id |-> price_id, model_id |-> model_id,
                             region_id |-> region_id, price |-> price]}],
             seq |-> s2, raised |-> FALSE]

\* upsert_price with ON CONFLICT DO NOTHING: the first amount stays
upsert_price_keep(store, s, model_id, region_id, price) ==
    LET price_id == s.prices + 1
        s2 == [s EXCEPT !.prices = price_id]
    IN IF ~price_fk_ok(store, model_id, region_id)
       THEN [store |-> store, seq |-> s2, raised |-> TRUE, exc |-> "ForeignKeyViolation"]
       ELSE IF \E p \in store.prices : p.model_id = model_id /\ p.region_id = region_id
       THEN [store |-> store, seq |-> s2, raised |-> FALSE]
       ELSE [store |-> [store EXCEPT !.prices = @ \cup
                           {[price_id |-> price_id, model_id |-> model_id,
                             region_id |-> region_id, price |-> price]}],
             seq |-> s2, raised |-> FALSE]

\* INSERT INTO prices ... ON CONFLICT (model_id, region_id) DO UPDATE SET price
upsert_price(store, s, model_id, region_id, price) ==
    LET price_id == s.prices + 1
        s2 == [s EXCEPT !.prices = price_id]
    IN IF ~price_fk_ok(store, model_id, region_id)
       THEN [store |-> store, seq |-> s2, raised |-> TRUE,
          exc |-> "ForeignKeyViolation"]
       ELSE IF \E p \in store.prices : p.model_id = model_id /\ p.region_id = region_id
       THEN [store |-> [store EXCEPT !.prices =
                           {IF p.model_id = model_id /\ p.region_id = region_id
                            THEN [p EXCEPT !.price = price] ELSE p : p \in @}],
             seq |-> s2, raised |-> FALSE]
       ELSE [store |-> [store EXCEPT !.prices = @ \cup
                           {[price_id |-> price_id, model_id |-> model_id,
                             region_id |-> region_id, price |-> price]}],
             seq |-> s2, raised |-> FALSE]

\* DELETE FROM prices WHERE price_id = %s
remove_price(store, s, price_id) ==
    [store |-> [store EXCEPT !.prices = {p \in @ : p.price_id # price_id}],
     seq |-> s, raised |-> FALSE]

DatabaseOps ==
    {"add_company", "update_company", "delete_company", "add_model", "update_model",
     "delete_model", "add_or_update_price", "delete_price"}

\* One call of a Database method by the GUI: `start` is the committed data
\* when the method's get_cursor block begins, r the outcome of its body
Call(op, args, start, r) ==
    /\ pc = "idle"
    /\ nops + Len(csv) < MaxEvents
    /\ nops' = nops + 1
    /\ before' = db
    /\ \E st \in {IF connection.status = "aborted" THEN db ELSE start} :
       \E b \in {execute(connection, db, seq, r)} :
          /\ connection' = get_cursor_exit(connection, b)
          /\ db' = get_cursor(st, b)
          /\ tx' = get_cursor(st, b)
          /\ seq' = b.seq
          /\ last' = [op |-> op, raised |-> reraise(b) # "", args |-> args,
                      failed |-> IF b.raised THEN b.exc ELSE "", exc |-> reraise(b),
                      start |-> st,
                      after_raise |-> last.op \in DatabaseOps /\ last.raised]
    /\ UNCHANGED <<pc, idx, csv, company_cache, processor_cache, region_cache,
                   models_count, prices_count, runs, log, rerun, sessions, proc>>

add_company ==
    \E company_name \in DbCompanyNames :
        Call("add_company", <<company_name>>, db, insert_company(db, seq, company_name))

update_company ==
    \E company_id \in ids(db.companies, "company_id"), company_name \in DbCompanyNames :
        Call("update_company", <<company_id, company_name>>, db,
             rename_company(db, seq, company_id, company_name))

delete_company ==
    \E company_id \in ids(db.companies, "company_id") :
        Call("delete_company", <<company_id>>, db, remove_company(db, seq, company_id))

add_model ==
    \E model_data \in ModelData :
        LET pr == resolve_processor(db, seq, model_data) IN
        Call("add_model", <<model_data>>, pr.store,
             insert_model(pr.store, pr.seq, model_data, pr.id))

update_model ==
    \E model_id \in ids(db.models, "model_id"), model_data \in ModelData :
        LET pr == resolve_processor(db, seq, model_data) IN
        Call("update_model", <<model_id, model_data>>, pr.store,
             rewrite_model(pr.store, pr.seq, model_id, model_data, pr.id))

delete_model ==
    \E model_id \in ids(db.models, "model_id") :
        Call("delete_model", <<model_id>>, db, remove_model(db, seq, model_id))

add_or_update_price ==
    \E model_id \in ids(db.models, "model_id"), region_id \in DialogRegions,
       price \in DbPrices :
        Call("add_or_update_price", <<model_id, region_id, price>>, db,
             upsert_price(db, seq, model_id, region_id, price))

delete_price ==
    \E price_id \in ids(db.prices, "price_id") :
        Call("delete_price", <<price_id>>, db, remove_price(db, seq, price_id))

\* A process with a connection of its own that calls add_or_update_price:
\* pc is where its call stands ("idle": no call; "called": inside get_cursor,
\* before cursor.execute; "executed": the statement is done, not committed),
\* args are the arguments of its latest call, r is what the statement has
\* written, exc what the latest call raised ("" when it returned), overlapped
\* whether another call for the pair was under way when the statement ran.
Sessions == 1..MaxSessions

NoCall ==
    [pc |-> "idle", args |-> <<>>, r |-> [raised |-> FALSE], exc |-> "",
     overlapped |-> FALSE]

price_call(s) ==
    /\ pc = "idle"
    /\ sessions[s].pc = "idle"
    /\ nops + Len(csv) < MaxEvents
    /\ nops' = nops + 1
    /\ \E model_id \in ids(db.models, "model_id"), region_id \in DialogRegions,
          price \in DbPrices :
          sessions' = [sessions EXCEPT ![s] =
                          [NoCall EXCEPT !.pc = "called",
                                         !.args = <<model_id, region_id, price>>]]
    /\ UNCHANGED <<db, tx, seq, pc, idx, csv, company_cache, processor_cache,
                   region_cache, models_count, prices_count, runs, log,
                   before, last, rerun, proc, connection>>

\* conflict_wait as it would be for a statement that does not wait for the
\* transaction holding the pair
conflict_wait_none(s, args) == FALSE

\* ON CONFLICT (model_id, region_id): the statement waits while another
\* transaction holds an uncommitted row of the pair
conflict_wait(s, args) ==
    \E t \in Sessions \ {s} :
        /\ sessions[t].pc = "executed"
        /\ ~sessions[t].r.raised
        /\ SamePair(sessions[t].r.row, args[1], args[2])

\* cursor.execute of add_or_update_price: the statement runs on the committed
\* data and leaves its row uncommitted
price_execute(s) ==
    /\ sessions[s].pc = "called"
    /\ ~conflict_wait(s, sessions[s].args)
    /\ \E a \in {sessions[s].args} :
       \E r \in {upsert_price(db, seq, a[1], a[2], a[3])} :
          /\ seq' = r.seq
          /\ sessions' = [sessions EXCEPT ![s] =
                [@ EXCEPT !.pc = "executed",
                          !.overlapped = \E t \in Sessions \ {s} :
                              /\ sessions[t].pc = "called"
                              /\ SamePair([model_id |-> a[1], region_id |-> a[2]],
                                          sessions[t].args[1], sessions[t].args[2]),
                          !.r = IF r.raised THEN [raised |-> TRUE, exc |-> r.exc]
                                ELSE [raised |-> FALSE,
                                      row |-> CHOOSE p \in r.store.prices :
                                                 SamePair(p, a[1], a[2])]]]
    /\ UNCHANGED <<db, tx, pc, idx, csv, company_cache, processor_cache,
                   region_cache, models_count, prices_count, runs, nops, log,
                   before, last, rerun, proc, connection>>

\* the unique index on (model_id, region_id) when the row w is made durable
commit_row(store, s, w) ==
    IF w.raised THEN [store |-> store, seq |-> s, raised |-> TRUE, exc |-> w.exc]
    ELSE IF \E p \in store.prices : /\ SamePair(p, w.row.model_id, w.row.region_id)
                                    /\ p.price_id # w.row.price_id
    THEN [store |-> store, seq |-> s, raised |-> TRUE, exc |-> "UniqueViolation"]
    ELSE [store |-> [store EXCEPT !.prices =
                        {p \in @ : p.price_id # w.row.price_id} \cup {w.row}],
          seq |-> s, raised |-> FALSE]

\* get_cursor of add_or_update_price: commit, or rollback and raise
price_commit(s) ==
    /\ sessions[s].pc = "executed"
    /\ \E r \in {commit_row(db, seq, sessions[s].r)} :
          /\ db' = get_cursor(db, r)
          /\ tx' = get_cursor(db, r)
          /\ before' = db
          /\ last' = [op |-> "add_or_update_price", raised |-> reraise(r) # "",
                      args |-> sessions[s].args,
                      failed |-> IF r.raised THEN r.exc ELSE "", exc |-> reraise(r),
                      start |-> db]
          /\ sessions' = [sessions EXCEPT ![s] =
                [@ EXCEPT !.pc = "idle", !.r = [raised |-> FALSE],
                          !.exc = reraise(r)]]
    /\ UNCHANGED <<seq, pc, idx, csv, company_cache, processor_cache,
                   region_cache, models_count, prices_count, runs, nops, log, rerun,
                   proc, connection>>

\* One call of a Database method that only reads: args is what it returns
Query(op, args) ==
    /\ pc = "idle"
    /\ last' = [op |-> op, raised |-> FALSE, args |-> args, failed |-> "", exc |-> ""]
    /\ UNCHANGED <<db, tx, seq, pc, idx, csv, company_cache, processor_cache,
                   region_cache, models_count, prices_count, runs, nops, log,
                   before, rerun, sessions, proc, connection>>

RECURSIVE Sum(_, _)
\* the sum of the amounts of the price rows ps, in units of 10^-K
Sum(ps, K) ==
    IF ps = {} THEN 0
    ELSE LET p == CHOOSE x \in ps : TRUE
         IN p.price[1] * Pow10(K - p.price[2]) + Sum(ps \ {p}, K)

RECURSIVE GCD(_, _)
GCD(a, b) == IF b = 0 THEN a ELSE GCD(b, a % b)

\* an amount a is less than an amount b
Less(a, b) == a[1] * Pow10(b[2]) < b[1] * Pow10(a[2])

\* AVG(p.price) of the price rows ps, as a fraction in lowest terms
AVG(ps) ==
    LET K == CHOOSE k \in {p.price[2] : p \in ps} : \A p \in ps : p.price[2] <= k
        num == Sum(ps, K)
        den == Cardinality(ps) * Pow10(K)
        g == GCD(num, den)
    IN <<num \div g, den \div g>>

MIN(ps) == (CHOOSE p \in ps : \A q \in ps : ~Less(q.price, p.price)).price

MAX(ps) == (CHOOSE p \in ps : \A q \in ps : ~Less(p.price, q.price)).price

\* ORDER BY as it would be with avg_price ascending
order_by_asc(a, b) == a.avg_price[1] * b.avg_price[2] <= b.avg_price[1] * a.avg_price[2]

\* ORDER BY avg_price DESC: row a may stand before row b
order_by(a, b) == a.avg_price[1] * b.avg_price[2] >= b.avg_price[1] * a.avg_price[2]

\* the rows of the query of get_price_statistics: one per region name that
\* has a price, in each order the ORDER BY allows
price_statistics(store) ==
    LET joined(n) == {p \in store.prices :
                        \E r \in store.regions : r.region_id = p.region_id
                                                 /\ r.region_name = n}
        groups == {[region_name |-> n, models_count |-> Cardinality(joined(n)),
                    avg_price |-> AVG(joined(n)), min_price |-> MIN(joined(n)),
                    max_price |-> MAX(joined(n))] :
                   n \in {x \in ids(store.regions, "region_name") : joined(x) # {}}}
    IN {f \in [1..Cardinality(groups) -> groups] :
          /\ \A i, j \in DOMAIN f : i # j => f[i] # f[j]
          /\ \A i, j \in DOMAIN f : i < j => order_by(f[i], f[j])}

\* the characters of the texts the store holds
Chars(text) ==
    CASE text = "Acme" -> <<"A", "c", "m", "e">>
      [] text = "Beta" -> <<"B", "e", "t", "a">>
      [] text = "X1" -> <<"X", "1">>
      [] text = "X2" -> <<"X", "2">>
      [] text = "8GB" -> <<"8", "G", "B">>
      [] text = "4GB" -> <<"4", "G", "B">>
      [] text = "5000mAh" -> <<"5", "0", "0", "0", "m", "A", "h">>

Upper == <<"A", "B", "C", "D", "E", "F", "G", "H", "I", "J", "K", "L", "M",
           "N", "O", "P", "Q", "R", "S", "T", "U", "V", "W", "X", "Y", "Z">>
Lower == <<"a", "b", "c", "d", "e", "f", "g", "h", "i", "j", "k", "l", "m",
           "n", "o", "p", "q", "r", "s", "t", "u", "v", "w", "x", "y", "z">>

\* ILIKE compares without regard to case
lower(s) ==
    [i \in 1..Len(s) |->
        IF \E k \in 1..Len(Upper) : Upper[k] = s[i]
        THEN Lower[CHOOSE k \in 1..Len(Upper) : Upper[k] = s[i]] ELSE s[i]]

RECURSIVE like(_, _)
\* s LIKE pattern: % stands for any characters, _ for any one character
\* (the texts searched for hold no backslash, LIKE's escape character)
like(s, pattern) ==
    IF pattern = <<>> THEN s = <<>>
    ELSE IF pattern[1] = "%"
    THEN like(s, Tail(pattern)) \/ (s # <<>> /\ like(Tail(s), pattern))
    ELSE IF pattern[1] = "_" THEN s # <<>> /\ like(Tail(s), Tail(pattern))
    ELSE s # <<>> /\ s[1] = pattern[1] /\ like(Tail(s), Tail(pattern))

\* field ILIKE pattern; NULL matches nothing
ILIKE(field, pattern) == field # NullText /\ like(lower(Chars(field)), lower(pattern))

\* the order of characters, and of texts, that ORDER BY sorts by
CharOrder ==
    <<" ", "%", "0", "1", "2", "3", "4", "5", "6", "7", "8", "9">> \o Upper
    \o <<"_">> \o Lower

Rank(c) == CHOOSE i \in 1..Len(CharOrder) : CharOrder[i] = c

TextLess(a, b) ==
    \/ Len(a) < Len(b) /\ SubSeq(b, 1, Len(a)) = a
    \/ \E i \in 1..Len(a) : /\ i <= Len(b)
                            /\ Rank(a[i]) < Rank(b[i])
                            /\ \A j \in 1..(i - 1) : a[j] = b[j]

\* ORDER BY c.company_name, m.model_name: row a may stand before row b
search_order(a, b) ==
    \/ TextLess(Chars(a.company_name), Chars(b.company_name))
    \/ /\ a.company_name = b.company_name
       /\ ~TextLess(Chars(b.model_name), Chars(a.model_name))

\* the rows of the query of search_models, in each order and with each cut
\* the ORDER BY and the LIMIT allow
search_rows(store, search_text) ==
    LET search_pattern == <<"%">> \o search_text \o <<"%">>
        joined == {mc \in store.models \X store.companies :
                     mc[1].company_id = mc[2].company_id}
        rows == {[model_id |-> mc[1].model_id, model_name |-> mc[1].model_name,
                  company_name |-> mc[2].company_name, ram |-> mc[1].ram,
                  battery_capacity |-> mc[1].battery_capacity,
                  launched_year |-> mc[1].launched_year] : mc \in joined}
        found == {r \in rows : \/ ILIKE(r.model_name, search_pattern)
                               \/ ILIKE(r.company_name, search_pattern)
                               \/ ILIKE(r.ram, search_pattern)
                               \/ ILIKE(r.battery_capacity, search_pattern)}
        n == IF Cardinality(found) < Limit THEN Cardinality(found) ELSE Limit
    IN {f \in [1..n -> found] :
          /\ \A i, j \in DOMAIN f : i # j => f[i] # f[j]
          /\ \A i, j \in DOMAIN f : i < j => search_order(f[i], f[j])
          /\ \A r \in found : (\A i \in DOMAIN f : f[i] # r) =>
                                 \A i \in DOMAIN f : search_order(f[i], r)}

\* the texts typed into the search field
SearchTexts ==
    {<<>>, <<"x">>, <<"g", "b">>, <<"A", "C">>, <<"z">>, <<"_">>, <<"%">>,
     <<"8", "_", "b">>}

search_models ==
    \E search_text \in SearchTexts : \E result \in search_rows(db, search_text) :
        Query("search_models", <<search_text, result>>)

get_price_statistics ==
    \E result \in price_statistics(db) : Query("get_price_statistics", <<result>>)

(* --------------------------- specification ---------------------------- *)
\* the regions are seeded outside the program: all five, or one is missing
SeededRegions == {RegionNames, RegionNames \ {"India"}}

Init ==
    /\ \E rn \in SeededRegions : db = EmptyStore(rn)
    /\ tx = db
    /\ seq = [companies |-> 0, processors |-> 0, models |-> 0, prices |-> 0]
    /\ pc = "idle"
    /\ idx = 0
    /\ csv = <<>>
    /\ company_cache = <<>>
    /\ processor_cache = <<>>
    /\ region_cache = <<>>
    /\ models_count = 0
    /\ prices_count = 0
    /\ runs = 0
    /\ nops = 0
    /\ log = <<>>
    /\ before = db
    /\ last = [op |-> "none", raised |-> FALSE, args |-> <<>>, failed |-> "", exc |-> ""]
    /\ rerun = FALSE
    /\ sessions = [s \in Sessions |-> NoCall]
    /\ proc = NoProcess
    /\ connection = IdleConnection

Next ==
    \/ main
    \/ import_data_again
    \/ import_data_row
    \/ import_data_end
    \/ add_company
    \/ update_company
    \/ delete_company
    \/ add_model
    \/ update_model
    \/ delete_model
    \/ add_or_update_price
    \/ delete_price

Spec == Init /\ [][Next]_vars

\* the importer alone, its loop scheduled: a started run takes its next step
NextImport ==
    \/ main
    \/ import_data_again
    \/ import_data_row
    \/ import_data_end

FairSpec ==
    /\ Init
    /\ [][NextImport]_vars
    /\ WF_vars(import_data_row)
    /\ WF_vars(import_data_end)

\* a file of CommitEvery + 1 rows: the same good row throughout, but for a
\* row with a non-numeric launch year at position k (none when k = 0)
LongCsv(k) ==
    [i \in 1..(CommitEvery + 1) |->
        IF i = k THEN Row("X2", NaNText, BadYear, NaN)
        ELSE Row("X1", "Chip1", GoodYear, NaN)]

InitBatch ==
    /\ \E rn \in SeededRegions : db = EmptyStore(rn)
    /\ tx = db
    /\ seq = [companies |-> 0, processors |-> 0, models |-> 0, prices |-> 0]
    /\ pc = "idle"
    /\ idx = 0
    /\ csv \in {LongCsv(k) : k \in {0, 1, CommitEvery - 1, CommitEvery, CommitEvery + 1}}
    /\ company_cache = <<>>
    /\ processor_cache = <<>>
    /\ region_cache = <<>>
    /\ models_count = 0
    /\ prices_count = 0
    /\ runs = 0
    /\ nops = 0
    /\ log = <<>>
    /\ before = db
    /\ last = [op |-> "none", raised |-> FALSE, args |-> <<>>, failed |-> "", exc |-> ""]
    /\ rerun = FALSE
    /\ sessions = [s \in Sessions |-> NoCall]
    /\ proc = NoProcess
    /\ connection = IdleConnection

SpecBatch == InitBatch /\ [][NextImport]_vars

\* the importer run on a two-row file of scenario rows, on an empty store
\* seeded with the five regions, and the statistics read afterwards
InitScenario ==
    /\ db = EmptyStore(RegionNames)
    /\ tx = db
    /\ seq = [companies |-> 0, processors |-> 0, models |-> 0, prices |-> 0]
    /\ pc = "idle"
    /\ idx = 0
    /\ csv \in {<<a, b>> : a \in ScenarioRows, b \in ScenarioRows}
    /\ company_cache = <<>>
    /\ processor_cache = <<>>
    /\ region_cache = <<>>
    /\ models_count = 0
    /\ prices_count = 0
    /\ runs = 0
    /\ nops = 0
    /\ log = <<>>
    /\ before = db
    /\ last = [op |-> "none", raised |-> FALSE, args |-> <<>>, failed |-> "", exc |-> ""]
    /\ rerun = FALSE
    /\ sessions = [s \in Sessions |-> NoCall]
    /\ proc = NoProcess
    /\ connection = IdleConnection

NextScenario ==
    \/ main
    \/ import_data_again
    \/ import_data_row
    \/ import_data_end
    \/ get_price_statistics

SpecScenario == InitScenario /\ [][NextScenario]_vars

\* the import script as a process, from its start to its end
NextScript ==
    \/ script_start
    \/ script_connect
    \/ script_import_data
    \/ import_data_row
    \/ import_data_end
    \/ import_data_raise
    \/ script_try_end
    \/ script_disconnect

SpecScript ==
    /\ Init
    /\ [][NextScript]_vars
    /\ WF_vars(script_connect)
    /\ WF_vars(script_import_data)
    /\ WF_vars(import_data_row)
    /\ WF_vars(import_data_end)
    /\ WF_vars(script_try_end)
    /\ WF_vars(script_disconnect)

\* processes that call add_or_update_price at the same time, on a catalog
\* that holds a company and a model of it
InitConcurrent ==
    /\ db = [EmptyStore(RegionNames) EXCEPT
               !.companies = {[company_id |-> 1, company_name |-> "Acme"]},
               !.models = {[model_id |-> 1, model_name |-> "X1", company_id |-> 1,
                            processor_id |-> None, launched_year |-> 2021,
                            ram |-> "4GB", battery_capacity |-> NullText]}]
    /\ tx = db
    /\ seq = [companies |-> 1, processors |-> 0, models |-> 1, prices |-> 0]
    /\ pc = "idle"
    /\ idx = 0
    /\ csv = <<>>
    /\ company_cache = <<>>
    /\ processor_cache = <<>>
    /\ region_cache = <<>>
    /\ models_count = 0
    /\ prices_count = 0
    /\ runs = 0
    /\ nops = 0
    /\ log = <<>>
    /\ before = db
    /\ last = [op |-> "none", raised |-> FALSE, args |-> <<>>, failed |-> "", exc |-> ""]
    /\ rerun = FALSE
    /\ sessions = [s \in Sessions |-> NoCall]
    /\ proc = NoProcess
    /\ connection = IdleConnection

NextConcurrent ==
    \/ \E s \in Sessions : price_call(s)
    \/ \E s \in Sessions : price_execute(s)
    \/ \E s \in Sessions : price_commit(s)

SpecConcurrent == InitConcurrent /\ [][NextConcurrent]_vars

\* the catalog filled through the forms, and searched
NextSearch ==
    \/ add_company
    \/ update_company
    \/ add_model
    \/ delete_model
    \/ search_models

SpecSearch == Init /\ [][NextSearch]_vars

\* parse_price alone, called with an input of PriceInputs
InitParse ==
    /\ db = EmptyStore(RegionNames)
    /\ tx = db
    /\ seq = [companies |-> 0, processors |-> 0, models |-> 0, prices |-> 0]
    /\ pc = "idle"
    /\ idx = 0
    /\ csv = <<>>
    /\ company_cache = <<>>
    /\ processor_cache = <<>>
    /\ region_cache = <<>>
    /\ models_count = 0
    /\ prices_count = 0
    /\ runs = 0
    /\ nops = 0
    /\ log = <<>>
    /\ before = db
    /\ \E price_str \in PriceInputs :
          last = [op |-> "input", raised |-> FALSE, args |-> <<price_str>>,
                  failed |-> "", exc |-> ""]
    /\ rerun = FALSE
    /\ sessions = [s \in Sessions |-> NoCall]
    /\ proc = NoProcess
    /\ connection = IdleConnection

NextParse == parse_price_call

SpecParse == InitParse /\ [][NextParse]_vars

(* ------------------------------ claims -------------------------------- *)
\* import_data has returned and nothing has happened since
AfterImport == pc = "idle" /\ last.op = "import_data"

Parsable(row) == {r \in RegionNames : parse_price(row.price[r]) # NoValue}

\* the row's model, under the row's company, and a price for each of the
\* row's parsable price cells are in the store
RowStored(row, store) ==
    \E c \in store.companies, mo \in store.models :
        /\ c.company_name = row.company
        /\ mo.company_id = c.company_id
        /\ mo.model_name = row.model
        /\ \A r \in Parsable(row) :
              \E p \in store.prices, reg \in store.regions :
                  /\ reg.region_name = r
                  /\ p.region_id = reg.region_id
                  /\ p.model_id = mo.model_id

Present(store, w) ==
    CASE w[1] = "companies" -> w[2] \in ids(store.companies, "company_id")
      [] w[1] = "processors" -> w[2] \in ids(store.processors, "processor_id")
      [] w[1] = "models" -> w[2] \in ids(store.models, "model_id")
      [] w[1] = "prices" -> w[2] \in ids(store.prices, "price_id")

Raising == {i \in 1..Len(log) : log[i].raised}

\* C1: when import_data returns after some row has raised, every row that
\* was processed without error has its model and its parsable prices in
\* the store.
C1_OtherRowsStored ==
    (AfterImport /\ Raising # {}) =>
        \A i \in 1..Len(log) : ~log[i].raised => RowStored(csv[i], db)

\* C2: once import_data has returned, no company, processor, model or price
\* row that a raising CSV row inserted before it raised is in the store.
C2_FailedRowLeavesNothing ==
    pc = "idle" => \A i \in Raising : \A w \in log[i].wrote : ~Present(db, w)

\* a run has returned in which a row raised after it had inserted a company,
\* a processor, a model and a price
C2_Witness ==
    /\ AfterImport
    /\ \E i \in Raising :
          {w[1] : w \in log[i].wrote} = {"companies", "processors", "models", "prices"}

\* C3: a Database operation that raises leaves the store exactly as it was
\* before the call.
C3_FailedOperationLeavesStore ==
    (last.op \notin {"none", "import_data"} /\ last.raised) => db = before

\* C4: in every reachable state, committed or inside the importer's
\* transaction, the store holds at most one price row per (model, region).
C4_OnePricePerPair ==
    \A store \in {db, tx} : \A p1, p2 \in store.prices :
        SamePair(p1, p2.model_id, p2.region_id) => p1 = p2

\* a second import run has passed, without error, over rows whose prices
\* were already stored
C4_Witness ==
    /\ AfterImport /\ rerun /\ Raising = {} /\ Len(log) > 0
    /\ \A i \in 1..Len(log) : RowStored(csv[i], before)

\* C5: after add_or_update_price(model, region, amount) the pair has exactly
\* one price row and its amount is the amount of this call; the call inserts
\* a row when the pair had none and overwrites the pair's row when it had one.
C5_SecondAmountWins ==
    (last.op = "add_or_update_price" /\ ~last.raised) =>
        LET now == {p \in db.prices : SamePair(p, last.args[1], last.args[2])}
            old == {p \in before.prices : SamePair(p, last.args[1], last.args[2])}
        IN /\ Cardinality(now) = 1
           /\ \A p \in now : p.price = last.args[3]
           /\ old = {} => Cardinality(db.prices) = Cardinality(before.prices) + 1
           /\ old # {} => /\ ids(now, "price_id") = ids(old, "price_id")
                          /\ Cardinality(db.prices) = Cardinality(before.prices)

\* the call overwrote the different amount an earlier add_or_update_price had
\* stored for the pair
C5_Witness ==
    /\ last.op = "add_or_update_price" /\ ~last.raised
    /\ \E p \in before.prices :
          /\ SamePair(p, last.args[1], last.args[2])
          /\ p.price \in DbPrices
          /\ p.price # last.args[3]

\* C6: during an import run and when it has returned, every company,
\* processor, region, model and price row that existed before the run is in
\* the store with every field unchanged.
C6_ExistingRowsUntouched ==
    (pc = "running" \/ AfterImport) =>
        \A store \in {db, tx} :
            /\ before.companies \subseteq store.companies
            /\ before.processors \subseteq store.processors
            /\ before.models \subseteq store.models
            /\ before.prices \subseteq store.prices
            /\ before.regions = store.regions

\* a run has returned that processed without error a row whose model existed
\* before the run with a Pakistan price other than the row's
C6_Witness ==
    /\ AfterImport
    /\ \E i \in 1..Len(log) : \E c \in before.companies, mo \in before.models,
                                 p \in before.prices, reg \in before.regions :
          /\ ~log[i].raised
          /\ c.company_name = csv[i].company
          /\ mo.company_id = c.company_id
          /\ mo.model_name = csv[i].model
          /\ reg.region_name = "Pakistan"
          /\ SamePair(p, mo.model_id, reg.region_id)
          /\ p.price # parse_price(csv[i].price["Pakistan"])

C8_SecondRunChangesNothing == (AfterImport /\ rerun) => db = before

\* C9: the counts import_data reports are the numbers of model rows and of
\* price rows the run added to the store.
C9_CountsAreRowsAdded ==
    AfterImport =>
        /\ last.args[1] = Cardinality(db.models \ before.models)
        /\ last.args[2] = Cardinality(db.prices \ before.prices)

\* C10: once the row at a position that is a multiple of 100 has been
\* handled, a commit was issued there and every row handled without error up
\* to that position is in the committed store.
C10_CommitAtEveryBoundary ==
    (pc = "running" /\ idx > 0 /\ idx % CommitEvery = 0) =>
        /\ log[idx].commit
        /\ \A i \in 1..idx : ~log[i].raised => RowStored(csv[i], db)

\* a processor name that get_or_create_processor resolves (not null, not empty)
Named(processor_name) == processor_name # NaNText /\ processor_name # ""

\* C11: within one run, the first resolution of a company name by a new
\* importer issues a lookup (and an insert on a miss); every later resolution
\* of the name issues no statement and returns the id the first one returned;
\* likewise for a processor name that is not empty.
C11_SecondResolutionFromCache ==
    \A j \in 1..Len(log) : \A i \in 1..j :
        /\ (i = j /\ runs = 1 /\ \A k \in 1..(j - 1) : csv[k].company # csv[j].company)
              => log[j].company.stmts \in {1, 2}
        /\ (i < j /\ csv[i].company = csv[j].company)
              => log[j].company = [id |-> log[i].company.id, stmts |-> 0]
        /\ (i = j /\ runs = 1 /\ Named(csv[j].processor)
                  /\ \A k \in 1..(j - 1) : csv[k].processor # csv[j].processor)
              => log[j].processor.stmts \in {1, 2}
        /\ (i < j /\ csv[i].processor = csv[j].processor /\ Named(csv[j].processor))
              => log[j].processor = [id |-> log[i].processor.id, stmts |-> 0]

\* a new importer has resolved the same new company and the same new
\* processor in two rows of one run
C11_Witness ==
    /\ runs = 1 /\ Len(log) >= 2
    /\ csv[1].company = csv[2].company
    /\ csv[1].processor = csv[2].processor /\ Named(csv[2].processor)
    /\ log[1].company.stmts = 2 /\ log[1].processor.stmts = 2

\* The importer without caches: every name is resolved by a lookup in the
\* store, and an insert on a miss.  One row, handled on the view `view` of
\* the store; where fetchone() has a choice of models it returns the model
\* `preferred` if that is among them.
reference_row(view, s, row, preferred) ==
    LET m0 == [tx |-> view, seq |-> s, company_cache |-> <<>>, processor_cache |-> <<>>,
               models_count |-> 0, prices_count |-> 0, wrote |-> {}, raised |-> FALSE]
        c == get_or_create_company_uncached(m0, row.company)
        p == get_or_create_processor_uncached(c.m, row.processor)
        found == ids(existing_models(p.m.tx, row.model, c.id), "model_id")
        existing_model == IF found = {} THEN None
                          ELSE IF preferred \in found THEN preferred
                          ELSE CHOOSE x \in found : TRUE
    IN row_outcome(row, c, p, existing_model)

RECURSIVE reference_import(_, _, _, _)
\* the rows of the file from row i on, with the loop's rollback, periodic
\* commit and final commit; the result is the store the run leaves
reference_import(i, view, committed, s) ==
    IF i > Len(csv) THEN view
    ELSE LET m == reference_row(view, s, csv[i], log[i].existing_model) IN
         IF m.raised
         THEN reference_import(i + 1, rollback(m.tx, committed), committed, m.seq)
         ELSE reference_import(i + 1, m.tx,
                               IF i % CommitEvery = 0 THEN m.tx ELSE committed, m.seq)

NameOf(rows, f, id, g) == IF id = None THEN NaNText ELSE (CHOOSE r \in rows : r[f] = id)[g]

\* what a store holds, whatever ids the rows were given
Content(store) ==
    LET company(mo) == NameOf(store.companies, "company_id", mo.company_id, "company_name")
        model(pr) == CHOOSE mo \in store.models : mo.model_id = pr.model_id
    IN [companies |-> ids(store.companies, "company_name"),
        processors |-> ids(store.processors, "processor_name"),
        models |-> {<<company(mo), mo.model_name,
                      NameOf(store.processors, "processor_id", mo.processor_id,
                             "processor_name"),
                      mo.launched_year, mo.ram>> : mo \in store.models},
        prices |-> {<<company(model(pr)), model(pr).model_name, pr.region_id, pr.price>> :
                      pr \in store.prices}]

\* C12: when import_data returns, the store holds what it would hold had the
\* run resolved every company and processor name by querying the store.
C12_CachesDoNotChangeResult ==
    (AfterImport /\ Len(log) = Len(csv)) =>
        Content(db) = Content(reference_import(1, before, before, seq))

\* C13: when a statement of a Database operation fails, the operation's
\* caller gets that same failure raised, and the store is what it was when
\* the failed transaction began.
C13_FailureIsReraised ==
    (last.op \in DatabaseOps /\ last.failed # "") =>
        /\ last.raised
        /\ last.exc = last.failed
        /\ db = last.start

\* the INSERT of add_model has failed on a foreign key, in the transaction
\* that followed the one of get_or_create_processor, and the caller got the
\* foreign-key violation
C13_Witness ==
    /\ last.op = "add_model"
    /\ last.failed = "ForeignKeyViolation" /\ last.exc = "ForeignKeyViolation"
    /\ last.start # before

\* no orphan rows: every price has its model, every model its company
NoOrphans(store) ==
    /\ \A p \in store.prices : p.model_id \in ids(store.models, "model_id")
    /\ \A mo \in store.models : mo.company_id \in ids(store.companies, "company_id")

\* C14: after delete_company(c) the store holds no model of company c and no
\* price of a model that belonged to c; and in every reachable state, in the
\* committed store and in the importer's transaction, no row is an orphan.
C14_DeleteCompanyCascades ==
    /\ (last.op = "delete_company" /\ ~last.raised) =>
          LET gone == {mo \in before.models : mo.company_id = last.args[1]} IN
          /\ \A mo \in db.models : mo.company_id # last.args[1]
          /\ \A p \in db.prices : p.model_id \notin ids(gone, "model_id")
    /\ NoOrphans(db)
    /\ NoOrphans(tx)

\* delete_company has deleted a company that had a model with a price; no
\* model and no price is left
C14_Witness ==
    /\ last.op = "delete_company" /\ ~last.raised
    /\ \E mo \in before.models, p \in before.prices :
          mo.company_id = last.args[1] /\ p.model_id = mo.model_id
    /\ db.models = {} /\ db.prices = {}

HasDigit(s) == \E i \in 1..Len(s) : s[i] \in Digits

\* C15: parse_price raises for no input, and what it returns is no value or
\* a finite amount that is not negative.
C15_FiniteNonNegativeOrNone ==
    last.op = "parse_price" =>
        /\ ~last.raised
        /\ \/ last.args[2] = NoValue
           \/ last.args[2] # Inf /\ last.args[2][1] >= 0

\* C16: for a price string without a decimal digit parse_price returns no
\* value.
C16_NoDigitNoValue ==
    (last.op = "parse_price" /\ last.args[1] # NaN /\ ~HasDigit(last.args[1])) =>
        last.args[2] = NoValue

\* parse_price was given a currency symbol, a dot and a blank
C16_Witness ==
    /\ last.op = "parse_price"
    /\ last.args[1] = <<"$", ".", " ">>

\* the characters of s that are digits or dots, in their order
NumeralOf(s) == SelectSeq(s, LAMBDA c : c \in Digits \cup {"."})

IsNumeral(n) ==
    /\ Cardinality({i \in 1..Len(n) : n[i] = "."}) <= 1
    /\ \E i \in 1..Len(n) : n[i] \in Digits

\* the value of a numeral as a float: whole part plus fraction, inf beyond
\* the largest double
NumeralValue(n) ==
    LET dots == {i \in 1..Len(n) : n[i] = "."}
        d == IF dots = {} THEN Len(n) + 1 ELSE CHOOSE i \in dots : TRUE
        whole == SubSeq(n, 1, d - 1)
        frac == SubSeq(n, d + 1, Len(n))
    IN IF Len(StripZeros(whole)) > Len(FloatOverflow) THEN Inf
       ELSE Normalize(DigitsToNat(whole) * Pow10(Len(frac)) + DigitsToNat(frac),
                      Len(frac))

C18_Scenario ==
    (/\ last.op = "get_price_statistics" /\ pc = "idle"
     /\ runs = 1 /\ csv = <<RowA, RowB>> /\ Len(log) = Len(csv)
     /\ before = EmptyStore(RegionNames)) =>
        /\ ids(db.companies, "company_name") = {"Acme"} /\ Cardinality(db.companies) = 1
        /\ ids(db.processors, "processor_name") = {"Chip1"}
        /\ Cardinality(db.processors) = 1
        /\ ids(db.models, "model_name") = {"X1", "X2"} /\ Cardinality(db.models) = 2
        /\ ids(db.models, "company_id") = ids(db.companies, "company_id")
        /\ Cardinality(db.prices) = 3
        /\ last.args[1] =
              << [region_name |-> "Pakistan", models_count |-> 2,
                  avg_price |-> <<15000, 1>>, min_price |-> <<10000, 0>>,
                  max_price |-> <<20000, 0>>],
                 [region_name |-> "India", models_count |-> 1,
                  avg_price |-> <<5000, 1>>, min_price |-> <<5000, 0>>,
                  max_price |-> <<5000, 0>>] >>

\* the statistics have been read after the import of row A and row B
C18_Witness ==
    /\ last.op = "get_price_statistics"
    /\ runs = 1 /\ pc = "idle" /\ csv = <<RowA, RowB>> /\ Len(log) = 2
    /\ Len(last.args[1]) = 2

\* text occurs in the field, case ignored
Occurs(search_text, field) ==
    /\ field # NullText
    /\ \E i \in 0..(Len(Chars(field)) - Len(search_text)) :
          SubSeq(lower(Chars(field)), i + 1, i + Len(search_text)) = lower(search_text)

\* C19: search_models(text) returns a model exactly if text occurs, case
\* ignored, in its model name, its company's name, its RAM or its battery
\* field, also when text holds % or _; the rows are ordered by company name
\* and then model name, and are at most 100.
C19_SearchIsSubstringMatch ==
    (last.op = "search_models" /\ pc = "idle") =>
        LET search_text == last.args[1]
            result == last.args[2]
        IN /\ \A m \in db.models : \A c \in db.companies :
                 c.company_id = m.company_id =>
                    ((\E i \in DOMAIN result : result[i].model_id = m.model_id)
                       <=> \/ Occurs(search_text, m.model_name)
                           \/ Occurs(search_text, c.company_name)
                           \/ Occurs(search_text, m.ram)
                           \/ Occurs(search_text, m.battery_capacity))
           /\ \A i, j \in DOMAIN result : i < j => search_order(result[i], result[j])
           /\ Len(result) <= Limit

\* the call of process s has returned
Returned(s) == sessions[s].pc = "idle" /\ sessions[s].args # <<>>

\* C20: however calls of add_or_update_price for one pair interleave, no call
\* fails with a duplicate-key error, no pair ever has two price rows, and
\* when a call has returned the pair has a price row, with the amount of the
\* call that committed last.
C20_UpsertIsAtomic ==
    /\ \A s \in Sessions : sessions[s].exc # "UniqueViolation"
    /\ \A p1, p2 \in db.prices : SamePair(p1, p2.model_id, p2.region_id) => p1 = p2
    /\ \A s \in Sessions : (Returned(s) /\ sessions[s].exc = "") =>
          \E p \in db.prices : SamePair(p, sessions[s].args[1], sessions[s].args[2])
    /\ (last.op = "add_or_update_price" /\ ~last.raised) =>
          /\ \E p \in db.prices :
                SamePair(p, last.args[1], last.args[2]) /\ p.price = last.args[3]
          /\ \A p \in db.prices :
                SamePair(p, last.args[1], last.args[2])
                \/ p \in before.prices

\* two processes have called add_or_update_price for one pair with different
\* amounts, one of them while the other's call was under way, and both calls
\* have returned
C20_Witness ==
    /\ Returned(1) /\ Returned(2)
    /\ sessions[1].args[1] = sessions[2].args[1]
    /\ sessions[1].args[2] = sessions[2].args[2]
    /\ sessions[1].args[3] # sessions[2].args[3]
    /\ sessions[1].overlapped \/ sessions[2].overlapped
    /\ sessions[1].exc = "" /\ sessions[2].exc = ""

\* C21: the import script's process ends only after disconnect() has been
\* executed, with the cursor and the connection closed if they were opened,
\* and a started process does reach its end: when connect fails, when the
\* file is unreadable, when import_data raises and when the run completes.
C21_ConnectionReleased ==
    /\ [](proc.pc = "ended" =>
            /\ proc.disconnected
            /\ proc.conn # "open"
            /\ proc.cursor # "open")
    /\ (proc.pc = "start") ~> (proc.pc = "ended")

\* the process has ended with an exception that import_data raised in the
\* middle of a run, its cursor and connection closed
C21_Witness ==
    /\ proc.pc = "ended" /\ proc.exc = "OperationalError"
    /\ proc.conn = "closed" /\ proc.cursor = "closed"
    /\ Len(log) >= 1

\* the step is one iteration of the import loop
RowStep == pc = "running" /\ idx' = idx + 1

\* C22: the importer's get_or_create_processor, given a null (NaN) or an
\* empty name, returns None, executes no statement and leaves the importer
\* (its processor cache, the store's processors, the sequence) as it was; a
\* row with such a name changes neither the cache nor the processors, and
\* the model it inserts has a null processor.
C22_MissingProcessorIsNull ==
    /\ [](\A n \in {NaNText, ""} :
            get_or_create_processor(Machine, n) =
                [m |-> Machine, id |-> None, stmts |-> 0])
    /\ [][(RowStep /\ ~Named(csv'[idx'].processor)) =>
            /\ log'[idx'].processor = [id |-> None, stmts |-> 0]
            /\ processor_cache' = processor_cache
            /\ seq'.processors = seq.processors
            /\ \A w \in log'[idx'].wrote :
                  /\ w[1] # "processors"
                  /\ (w[1] = "models" /\ ~log'[idx'].raised) =>
                        \E mo \in tx'.models :
                            mo.model_id = w[2] /\ mo.processor_id = None]_vars

\* a row without a processor name has been imported and its model is in the
\* importer's view with a null processor, while a named processor is cached
C22_Witness ==
    /\ pc = "running" /\ idx >= 2
    /\ ~Named(csv[idx].processor) /\ ~log[idx].raised
    /\ \E w \in log[idx].wrote :
          /\ w[1] = "models"
          /\ \E mo \in tx.models : mo.model_id = w[2] /\ mo.processor_id = None
    /\ processor_cache # <<>>

\* C23: no step of the importer or of the Database changes the regions
\* table, and none takes a row out of the committed processors table: the
\* regions stay as they were seeded and the processors only grow.
C23_RegionsFixedProcessorsGrow ==
    [][/\ db'.regions = db.regions
       /\ (pc' = "running" => tx'.regions = db.regions)
       /\ db.processors \subseteq db'.processors]_vars

\* a model has just been deleted and its processor, which no model refers
\* to any more, is still in the store
C23_Witness ==
    /\ last.op = "delete_model" /\ ~last.raised
    /\ \E p \in db.processors :
          /\ p.processor_id \notin ids(db.models, "processor_id")
          /\ p.processor_id \in ids(before.models, "processor_id")
    /\ db.regions # {}

\* C24: whenever parse_price is given an input that is neither null nor
\* empty and returns no value, it has emitted a warning.
C24_NoValueIsWarned ==
    (/\ last.op = "parse_price"
     /\ last.args[1] # NaN /\ last.args[1] # <<>>
     /\ last.args[2] = NoValue) => last.args[3]

\* C25: every call of import_data starts with an empty company cache and an
\* empty processor cache, also a second call on the same importer.
C25_CachesStartEmpty ==
    (pc = "running" /\ idx = 0) => (company_cache = <<>> /\ processor_cache = <<>>)

\* the ids a cache holds
CachedIds(cache) == {cache[n] : n \in DOMAIN cache}

\* C26: at every point of an import run each id in company_cache and in
\* processor_cache is the id of a row of the store as the importer's
\* transaction sees it, also after a row has failed and been rolled back.
C26_CachedIdsExist ==
    pc = "running" =>
        /\ CachedIds(company_cache) \subseteq ids(tx.companies, "company_id")
        /\ CachedIds(processor_cache) \subseteq ids(tx.processors, "processor_id")

Tables == {"companies", "processors", "models", "prices", "regions"}

\* the tables the statements of a Database operation write, cascades included
Touches(op) ==
    CASE op \in {"add_company", "update_company"} -> {"companies"}
      [] op = "delete_company" -> {"companies", "models", "prices"}
      [] op \in {"add_model", "update_model"} -> {"processors", "models"}
      [] op = "delete_model" -> {"models", "prices"}
      [] op \in {"add_or_update_price", "delete_price"} -> {"prices"}

\* C27: between two Database operations the connection holds no transaction
\* and no open cursor, also after an operation has raised; the operation
\* that follows a raising one is executed normally (it is not refused for a
\* failed transaction), leaves the store as it found it when it raises in
\* turn, and otherwise commits changes to its own tables only.
C27_ConnectionUsableAfterFailure ==
    /\ connection = IdleConnection
    /\ (last.op \in DatabaseOps /\ last.after_raise) =>
          /\ last.failed # "InFailedSqlTransaction"
          /\ last.raised => db = last.start
          /\ \A t \in Tables \ Touches(last.op) : db[t] = before[t]

\* an operation has committed a change right after another one had raised
C27_Witness ==
    /\ last.op \in DatabaseOps /\ last.after_raise
    /\ ~last.raised
    /\ db # before
    /\ connection = IdleConnection

\* no two models of the store have the same (model name, company id)
NoDupModels(store) ==
    \A m1, m2 \in store.models :
        (m1.model_name = m2.model_name /\ m1.company_id = m2.company_id) =>
            m1.model_id = m2.model_id

\* the rows of the file read so far that name the model and company of row i
SameModelRows(i) ==
    {j \in 1..Len(log) : csv[j].model = csv[i].model /\ csv[j].company = csv[i].company}

\* C28: import_data creates no second model with the (model name, company
\* id) of another: when the store held no such pair of models as the run
\* began, the importer's view holds none at any point of the run and the
\* store holds none after it, also when rows of the CSV repeat a model.
C28_NoDuplicateModel ==
    ((pc = "running" \/ AfterImport) /\ NoDupModels(before)) =>
        (NoDupModels(tx) /\ NoDupModels(db))

\* a run has ended whose file named the same model of the same company in
\* two rows that both went through, and the store holds that model once
C28_Witness ==
    /\ AfterImport /\ Len(log) = Len(csv)
    /\ \E i \in 1..Len(log) :
          /\ ~log[i].raised
          /\ \E j \in SameModelRows(i) : j # i /\ ~log[j].raised
          /\ Cardinality({mo \in db.models : mo.model_name = csv[i].model}) = 1

\* the characters of a price cell that are neither a digit nor a dot
Noise == {c \in PriceChars : ~IsDigitOrDot(c)}

\* string s with character c put in after its first i characters
Insert(s, i, c) == SubSeq(s, 1, i) \o <<c>> \o SubSeq(s, i + 1, Len(s))

\* C29: the result of parse_price on a non-empty string depends only on the
\* string's digits and dots, in their order: putting any other character
\* anywhere into the string leaves the result as it is, and the result is
\* that of the digits and dots alone; so a minus sign gives no negative
\* amount, and a dot of a currency prefix is the decimal point of the result.
C29_OnlyDigitsAndDotsCount ==
    (last.op = "parse_price" /\ last.args[1] # NaN /\ last.args[1] # <<>>) =>
        LET price_str == last.args[1]
            result == last.args[2]
        IN /\ \A i \in 0..Len(price_str), c \in Noise :
                 parse_price(Insert(price_str, i, c)) = result
           /\ NumeralOf(price_str) # <<>> =>
                 parse_price(NumeralOf(price_str)) = result
           /\ IsNumeral(NumeralOf(price_str)) =>
                 result = NumeralValue(NumeralOf(price_str))
           /\ result \in {NoValue, Inf} \/ result[1] >= 0

\* parse_price was given "$. 50", a prefix that ends in a dot before the
\* amount 50, and returned 0.5
C29_Witness ==
    /\ last.op = "parse_price"
    /\ last.args[1] = <<"$", ".", " ", "5", "0">>
    /\ last.args[2] = <<5, 1>>

\* the hard-coded region names that load_regions did not find
MissingRegions == {r \in RegionNames : r \notin DOMAIN region_cache}

\* the Launched Year cell of every row of the file is empty or an integer
YearsWellFormed == \A i \in 1..Len(csv) : csv[i].year = NaN \/ int_ok(csv[i].year)

\* C30: after a run that began with a region name missing from the store,
\* over a file that is well-formed otherwise, every row with a parsable
\* price for a missing region has raised and has left nothing in the store,
\* and every other row is unaffected: it has not raised and its model and
\* its prices are in the store.
C30_MissingRegionFailsOnlyItsRows ==
    (/\ AfterImport /\ runs = 1 /\ Len(log) = Len(csv)
     /\ MissingRegions # {} /\ YearsWellFormed) =>
        \A i \in 1..Len(log) :
            IF Parsable(csv[i]) \cap MissingRegions # {}
            THEN /\ log[i].raised
                 /\ \A w \in log[i].wrote : ~Present(db, w)
            ELSE ~log[i].raised /\ RowStored(csv[i], db)

====
